---- MODULE Spec2Model ----
(***************************************************************************)
(* Model of the Daytona MCP server: the sandbox handle cache kept by       *)
(* DaytonaMcpServer (sandboxCache, cacheTtl), the resolver getSandbox and  *)
(* the tool handlers that call it and then one backend operation.          *)
(*                                                                         *)
(* The runtime is single threaded and cooperative: a handler runs without  *)
(* interruption up to its next await.  An action of this model is one such *)
(* uninterrupted stretch of one handler invocation.                        *)
(*                                                                         *)
(* Spec explores concurrent invocations of the sandbox-scoped tools and    *)
(* the passing of time during their backend calls; SpecDispatch serves     *)
(* requests for every kind of tool and resource one at a time, input       *)
(* validation included; SpecStartup is the run of createDaytonaStdioServer *)
(* that configures, constructs and connects the server.                    *)
(***************************************************************************)
EXTENDS Integers, Sequences, FiniteSets, TLC

\* ---------------------------------------------------------------- bounds
MaxTime == 2          \* Date.now() runs over 0..MaxTime
MaxCalls == 2         \* handler invocations made in one behaviour

\* ------------------------------------------------------- program constants
DEFAULT_CACHE_TTL == 30000

\* Handler invocations, numbered in the order in which the requests arrive.
\* Any number of them can be in flight together.
Calls == 1..MaxCalls
Ids == {"sb1", "missing"}
InitialSandboxes == {"sb1"}

\* ------------------------------------------------------------ cache (Map)
\* A Map<string, SandboxCacheItem> as the set of its (key, value) pairs.
NoItem == [present |-> FALSE, id |-> "", expiresAt |-> 0]

SandboxCacheItem(id, expiresAt) == [present |-> TRUE, id |-> id, expiresAt |-> expiresAt]

MapHas(m, k) == \E e \in m : e.key = k

MapGet(m, k) ==
    IF MapHas(m, k)
    THEN LET e == CHOOSE x \in m : x.key = k
         IN  SandboxCacheItem(e.id, e.expiresAt)
    ELSE NoItem

MapSetNoReplace(m, k, v) ==
    m \cup {[key |-> k, id |-> v.id, expiresAt |-> v.expiresAt]}

MapSetIfAbsent(m, k, v) ==
    IF MapHas(m, k) THEN m
    ELSE m \cup {[key |-> k, id |-> v.id, expiresAt |-> v.expiresAt]}

MapSetClearing(m, k, v) == {[key |-> k, id |-> v.id, expiresAt |-> v.expiresAt]}

MapSet(m, k, v) ==
    {e \in m : e.key # k} \cup {[key |-> k, id |-> v.id, expiresAt |-> v.expiresAt]}

\* ------------------------------------------------------------ construction
\* options.cacheTtl is absent or a number.
CacheTtlOptions ==
    {[given |-> FALSE, value |-> 0], [given |-> TRUE, value |-> 1]}

\* this.cacheTtl = options.cacheTtl ?? DEFAULT_CACHE_TTL
ConstructCacheTtlDefault(options) == DEFAULT_CACHE_TTL

ConstructCacheTtlOr(options) ==
    IF options.given /\ options.value # 0 THEN options.value ELSE DEFAULT_CACHE_TTL

ConstructCacheTtl(options) ==
    IF options.given THEN options.value ELSE DEFAULT_CACHE_TTL

\* ---------------------------------------------------------------- backend
\* What daytona.get(id) or a backend operation on a sandbox settles with.
NoReply == [ok |-> FALSE, id |-> "", error |-> ""]
Handle(id) == [ok |-> TRUE, id |-> id, error |-> ""]
BackendFailure(id, e) == [ok |-> FALSE, id |-> id, error |-> e]

BackendReplies(sandboxes, id) ==
    IF id \in sandboxes
    THEN {Handle(id), BackendFailure(id, "Network")}
    ELSE {BackendFailure(id, "NotFound"), BackendFailure(id, "Network")}

\* ------------------------------------------------------------------ tools
\* The handlers of the registered tools and resources: whether a handler
\* calls getSandbox, the backend operation it makes after that ("" when it
\* makes none), what it returns and the error it throws.
\* The tools the concurrent specification invokes.
ToolNames == {"get-sandbox", "start-sandbox", "remove-sandbox"}

\* All tools modelled: the six sandbox tools and one or two of each other
\* group (the remaining process, file and git tools repeat these shapes).
SandboxToolNames ==
    {"create-sandbox", "get-sandbox", "list-sandboxes",
     "start-sandbox", "stop-sandbox", "remove-sandbox"}
OtherToolNames == {"execute-command", "list-files", "create-directory", "clone-repository"}

\* RESOURCE_URIS
SANDBOXES == "sandboxes://"
SANDBOX == "sandboxes://{id}"
FILES == "sandbox://{sandboxId}/files/{path*}"
PROCESSES == "sandbox://{sandboxId}/processes/{sessionId}"
GIT == "sandbox://{sandboxId}/git/{repoPath*}"
ResourceNames == {SANDBOXES, SANDBOX, FILES, PROCESSES, GIT}

HandlerNames == SandboxToolNames \cup OtherToolNames \cup ResourceNames

\* Whether the handler starts with await getSandbox(...).
CallsGetSandboxAlways(op) == TRUE

CallsGetSandbox(op) == op \notin {"create-sandbox", "list-sandboxes", SANDBOXES}

ToolSubCall(op) ==
    CASE op = "get-sandbox"      -> ""
      [] op = "start-sandbox"    -> "start"
      [] op = "remove-sandbox"   -> "remove"
      [] op = "stop-sandbox"     -> "stop"
      [] op = "create-sandbox"   -> "create"
      [] op = "list-sandboxes"   -> "list"
      [] op = "execute-command"  -> "process.executeCommand"
      [] op = "list-files"       -> "fs.listFiles"
      [] op = "create-directory" -> "fs.createFolder"
      [] op = "clone-repository" -> "git.clone"
      [] op = SANDBOXES          -> "list"
      [] op = SANDBOX            -> ""
      [] op = FILES              -> "fs.listFiles"
      [] op = PROCESSES          -> "process.listSessions"
      [] op = GIT                -> "git.status"

\* mimeType: that of content[0] of the returned object; "" when the handler
\* returns no content list (a bare { text } or, for a resource, a string).
NoResponse ==
    [isError |-> FALSE, code |-> "", message |-> <<>>, text |-> <<>>, mimeType |-> ""]

\* return { content: [{ mimeType, text }] } of the registerTool handlers
ContentMimeType(op) ==
    CASE op = "list-files"       -> "application/json"
      [] op = "create-directory" -> "text/plain"
      [] OTHER                   -> ""

\* return { text: ... } of a handler; the string a resource returns
ToolResult(op, id) ==
    [isError |-> FALSE, code |-> "", message |-> <<>>,
     text |-> CASE op = "get-sandbox"      -> <<"json", id>>
                [] op = "start-sandbox"    -> <<"Sandbox ", id, " started successfully">>
                [] op = "remove-sandbox"   -> <<"Sandbox ", id, " removed successfully">>
                [] op = "stop-sandbox"     -> <<"Sandbox ", id, " stopped successfully">>
                [] op = "create-sandbox"   -> <<"json", id>>
                [] op = "create-directory" -> <<"Directory ", "path", " created successfully">>
                [] op = "clone-repository" -> <<"Repository ", "url", " cloned successfully to ", "path">>
                [] OTHER                   -> <<"json">>,
     mimeType |-> ContentMimeType(op)]

\* The code property of the error a backend call rejected with ("" when the
\* error has none).
CodedErrors == {"ECONNREFUSED"}
ErrorCode(error) == IF error.error \in CodedErrors THEN error.error ELSE ""

\* The handlers whose outcome depends on that property: the sandboxes list
\* resource has no try/catch, the processes resource rethrows an error that
\* has a code.
ReadsErrorCode(op) == op \in {SANDBOXES, PROCESSES}

\* The error as the backend threw it.
RawError(error) ==
    [isError |-> TRUE, code |-> ErrorCode(error), message |-> <<error.error>>,
     text |-> <<>>, mimeType |-> ""]

ToolErrorRethrow(op, id, error) == RawError(error)

\* throw { code, message } of a handler's catch block
ToolError(op, id, error) ==
    IF op = SANDBOXES \/ (op = PROCESSES /\ ErrorCode(error) # "")
    THEN RawError(error)
    ELSE
    [isError |-> TRUE,
     code |-> CASE op \in {"get-sandbox", SANDBOX, FILES, PROCESSES, GIT} -> "ResourceNotFound"
                [] op \in {"list-files", "create-directory"} -> "ErrorCode.InternalError"
                [] OTHER -> "InternalError",
     message |-> CASE op = "get-sandbox"      -> <<"Sandbox not found: ", id>>
                   [] op = "start-sandbox"    -> <<"Failed to start sandbox: ", error.error>>
                   [] op = "remove-sandbox"   -> <<"Failed to remove sandbox: ", error.error>>
                   [] op = "stop-sandbox"     -> <<"Failed to stop sandbox: ", error.error>>
                   [] op = "create-sandbox"   -> <<"Failed to create sandbox: ", error.error>>
                   [] op = "list-sandboxes"   -> <<"Failed to list sandboxes: ", error.error>>
                   [] op = "execute-command"  -> <<"Failed to execute command: ", error.error>>
                   [] op = "list-files"       -> <<"Failed to list files: ", error.error>>
                   [] op = "create-directory" -> <<"Failed to create directory: ", error.error>>
                   [] op = "clone-repository" -> <<"Failed to clone repository: ", error.error>>
                   [] op = SANDBOX            -> <<"Sandbox not found: ", id>>
                   [] op = FILES              -> <<"Files not found: ", "path">>
                   [] op = PROCESSES          -> <<"Processes not found">>
                   [] op = GIT                -> <<"Git repository not found: ", "repoPath">>,
     text |-> <<>>, mimeType |-> ""]

\* ---------------------------------------------------------- server factory
\* A value that is a string or undefined (an option that was not given, an
\* environment variable that is not set).
Undefined == [defined |-> FALSE, value |-> ""]
Str(s) == [defined |-> TRUE, value |-> s]

DAYTONA_SERVER_URL == "https://app.daytona.io/api"
DAYTONA_TARGET == "us"

\* a || b of JavaScript on such values: a unless a is undefined or ''.
OrNullish(a, b) == IF a.defined THEN a ELSE b

Or(a, b) == IF a.defined /\ a.value # "" THEN a ELSE b

\* options.daytonaConfig of the caller and process.env of the process.
DaytonaConfigOptions ==
    [apiKey : {Undefined, Str(""), Str("opt-key")},
     serverUrl : {Undefined, Str(""), Str("opt-url")},
     target : {Undefined, Str(""), Str("eu")}]

ProcessEnv ==
    [DAYTONA_API_KEY : {Undefined, Str(""), Str("env-key")},
     DAYTONA_SERVER_URL : {Undefined, Str(""), Str("env-url")},
     DAYTONA_TARGET : {Undefined, Str(""), Str("asia")}]

\* const daytonaConfig = { apiKey: ... || ... || '', ... }
CreateDaytonaConfig(options, env) ==
    [apiKey |-> Or(Or(options.apiKey, env.DAYTONA_API_KEY), Str("")),
     serverUrl |-> Or(Or(options.serverUrl, env.DAYTONA_SERVER_URL), Str(DAYTONA_SERVER_URL)),
     target |-> Or(Or(options.target, env.DAYTONA_TARGET), Str(DAYTONA_TARGET))]

\* if (!daytonaConfig.apiKey)
ApiKeyMissingUndefinedOnly(daytonaConfig) == ~daytonaConfig.apiKey.defined

ApiKeyMissing(daytonaConfig) ==
    ~daytonaConfig.apiKey.defined \/ daytonaConfig.apiKey.value = ""

ApiKeyRequired == "Daytona API key is required. Set it in options or DAYTONA_API_KEY environment variable."

NoConfig == [apiKey |-> Undefined, serverUrl |-> Undefined, target |-> Undefined]

\* The registry of operations, as the sequence of the names registered, in
\* the order of registration.  registerResources adds the five resources;
\* registerTools adds the sandbox, process, file and git tools.
RegisterResources(registry) ==
    registry \o <<SANDBOXES, SANDBOX, FILES, PROCESSES, GIT>>

RegisterTools(registry) ==
    registry \o <<"create-sandbox", "get-sandbox", "list-sandboxes", "start-sandbox",
                  "stop-sandbox", "remove-sandbox", "execute-command", "list-files",
                  "create-directory", "clone-repository">>

\* What the constructor leaves in the registry.
ConstructRegistryResourcesOnly == RegisterResources(<<>>)

ConstructRegistry == RegisterTools(RegisterResources(<<>>))

\* The run of createDaytonaStdioServer.  pc: "start", "connecting" (suspended
\* in await server.connect), "running" (returned the server), "failed"
\* (threw error).  constructed: new DaytonaMcpServer ran; registered: its
\* registerResources and registerTools ran; registry: what they registered;
\* connected: the transport is connected.
StartupOf(options, cacheTtlOption, env) ==
    [pc |-> "start", options |-> options, cacheTtlOption |-> cacheTtlOption,
     env |-> env, daytonaConfig |-> NoConfig, error |-> "",
     constructed |-> FALSE, registered |-> FALSE, registry |-> <<>>,
     connected |-> FALSE]

\* The run that the serving states of this model follow: the key is given in
\* the options, everything else is left to the defaults.
Started(cacheTtlOption) ==
    LET options == [apiKey |-> Str("opt-key"), serverUrl |-> Undefined, target |-> Undefined]
        env == [DAYTONA_API_KEY |-> Undefined, DAYTONA_SERVER_URL |-> Undefined,
                DAYTONA_TARGET |-> Undefined]
    IN  [StartupOf(options, cacheTtlOption, env) EXCEPT
            !.pc = "running", !.daytonaConfig = CreateDaytonaConfig(options, env),
            !.constructed = TRUE, !.registered = TRUE,
            !.registry = ConstructRegistry, !.connected = TRUE]

\* --------------------------------------------------------------- dispatch
\* The raw input of a request, as the keys the modelled schemas distinguish:
\* sandboxId, language (of create-sandbox) and badField, a key no schema
\* declares.
NoInput == [sandboxId |-> Undefined, language |-> Undefined, badField |-> Undefined]

Inputs(op) ==
    IF op = "create-sandbox"
    THEN [sandboxId : {Undefined},
          language : {Undefined, Str("python"), Str("cobol")},
          badField : {Undefined, Str("1")}]
    ELSE IF op \in {"list-sandboxes", SANDBOXES}
    THEN {NoInput}
    ELSE IF op \in ResourceNames
    THEN [sandboxId : {Str(i) : i \in Ids}, language : {Undefined}, badField : {Undefined}]
    ELSE [sandboxId : {Undefined} \cup {Str(i) : i \in Ids},
          language : {Undefined}, badField : {Undefined}]

\* parameters: z.object({...}) of the tool.  z.object is not strict: a key the
\* schema does not declare is dropped, not rejected.  create-sandbox declares
\* only optional keys; the sandbox-scoped tools require sandboxId: z.string().
\* A resource has no schema.
SchemaAccepts(op, input) ==
    IF op = "create-sandbox"
    THEN ~input.language.defined
           \/ input.language.value \in {"typescript", "javascript", "python"}
    ELSE IF op \in ResourceNames \/ op = "list-sandboxes" THEN TRUE
    ELSE input.sandboxId.defined

\* invoke(name, rawInput) fails with InvalidInput when rawInput fails the
\* schema of the operation, and otherwise runs the handler and returns its
\* result or propagates its failure.
DispatchRejects(op, input) == ~SchemaAccepts(op, input)

InvalidInput ==
    [isError |-> TRUE, code |-> "InvalidInput", message |-> <<"Invalid input">>,
     text |-> <<>>, mimeType |-> ""]

\* What the handler's backend operation can settle with.
SubReplies(op, id, sandboxes) ==
    LET coded == IF ReadsErrorCode(op) THEN {BackendFailure(id, e) : e \in CodedErrors} ELSE {}
    IN  coded \cup
        CASE ToolSubCall(op) = "list"   -> {Handle(""), BackendFailure("", "Network")}
          [] ToolSubCall(op) = "create" -> {Handle(i) : i \in Ids \ sandboxes}
                                             \cup {BackendFailure("", "Network")}
          [] OTHER                      -> BackendReplies(sandboxes, id)

\* What daytona.get(id) inside getSandbox can settle with.
GetReplies(op, id, sandboxes) ==
    BackendReplies(sandboxes, id)
      \cup (IF ReadsErrorCode(op) THEN {BackendFailure(id, e) : e \in CodedErrors} ELSE {})

\* ------------------------------------------------------------------ state
VARIABLES
    clock,          \* Date.now()
    cacheTtl,       \* this.cacheTtl
    sandboxCache,   \* this.sandboxCache
    sandboxes,      \* the sandboxes that exist on the backend
    calls,          \* per request: the handler invocation that serves it
    backendGets,    \* daytona.get calls received by the backend so far
    lastPut,        \* per id: when and what the latest sandboxCache.set wrote
    startup         \* the run of createDaytonaStdioServer that made the server

vars == <<clock, cacheTtl, sandboxCache, sandboxes, calls, backendGets, lastPut, startup>>

\* pc: "idle", "awaitHit" (suspended at line 80), "awaitMiss" (suspended at
\* line 85), "awaitSub" (suspended in the handler's backend operation), "done".
\* now: the local of getSandbox, which ends with its return (cacheItem is not
\* read after line 78).  lookup: what line 78 saw of the entry of id.  gets, puts,
\* subs: how many daytona.get calls, cache writes and backend operations the
\* invocation made.  reply: what daytona.get settled with;
\* sandbox: what getSandbox returned or threw; response: the handler's outcome.
\* outcome: what the handler's backend operation settled with.
\* input: the raw input of the request, where the dispatch is modelled.
NoCall ==
    [pc |-> "idle", op |-> "", input |-> NoInput, id |-> "", now |-> 0,
     lookup |-> "", gets |-> 0, puts |-> 0, subs |-> 0,
     reply |-> NoReply, sandbox |-> NoReply, outcome |-> NoReply,
     response |-> NoResponse]

NoPut == [done |-> FALSE, at |-> 0, started |-> 0, id |-> "", expiresAt |-> 0]

Init ==
    /\ clock = 0
    /\ \E options \in CacheTtlOptions :
          /\ cacheTtl = ConstructCacheTtl(options)
          /\ startup = Started(options)
    /\ sandboxCache = {}
    /\ sandboxes = InitialSandboxes
    /\ calls = [t \in Calls |-> NoCall]
    /\ backendGets = 0
    /\ lastPut = [i \in Ids |-> NoPut]

\* ------------------------------------------------------------- getSandbox
\* if (cacheItem && cacheItem.expiresAt > now)
IsFresh(cacheItem, now) == cacheItem.present /\ cacheItem.expiresAt > now

\* Fresh | Stale | Absent, as the test of line 78 sees the entry.
Lookup(cacheItem, now) ==
    IF ~cacheItem.present THEN "Absent"
    ELSE IF IsFresh(cacheItem, now) THEN "Fresh" ELSE "Stale"

\* getSandbox from its entry to its await: lines 75-80 or 75-85.
GetSandboxEnterCached(c, id, cache, now) ==
    LET item == MapGet(cache, id)
    IN  [c EXCEPT !.id = id, !.now = now,
                  !.lookup = Lookup(item, now),
                  !.pc = IF IsFresh(item, now) THEN "awaitHit" ELSE "awaitMiss",
                  !.gets = IF IsFresh(item, now) THEN c.gets ELSE c.gets + 1]

GetSandboxEnter(c, id, cache, now) ==
    LET item == MapGet(cache, id)
    IN  [c EXCEPT !.id = id, !.now = now,
                  !.lookup = Lookup(item, now),
                  !.pc = IF IsFresh(item, now) THEN "awaitHit" ELSE "awaitMiss",
                  !.gets = c.gets + 1]

\* Whether getSandbox, resumed with reply, reaches sandboxCache.set (line 88):
\* only on the miss path, and only when the await of line 85 did not throw.
PutsOnReturnAbsentOnly(c, reply) == c.lookup = "Absent" /\ reply.ok

PutsOnReturnFinally(c, reply) == c.pc = "awaitMiss"

PutsOnReturnAlways(c, reply) == reply.ok

PutsOnReturn(c, reply) == c.pc = "awaitMiss" /\ reply.ok

\* What getSandbox returns or throws when daytona.get settled with reply.
GetSandboxOutcomeCached(c, reply) ==
    IF c.lookup = "Fresh" THEN Handle(c.id) ELSE reply

GetSandboxOutcome(c, reply) == reply

\* ------------------------------------------------------------ tool handlers
\* Whether the handler, resumed with what getSandbox returned or threw, goes
\* on to its backend operation: only when the await of getSandbox did not
\* throw (a throw goes to the catch block) and the tool has such an operation.
StartsSubCallAnyway(c, sandbox) == ToolSubCall(c.op) # ""

StartsSubCall(c, sandbox) == sandbox.ok /\ ToolSubCall(c.op) # ""

\* The cache after the handler's backend operation settled: no handler reads
\* or writes this.sandboxCache.
CacheAfterSubEvicting(cache, c, outcome) ==
    IF outcome.ok /\ ToolSubCall(c.op) = "remove"
    THEN {e \in cache : e.key # c.id}
    ELSE cache

CacheAfterSubCaching(cache, c, outcome) ==
    IF outcome.ok /\ ToolSubCall(c.op) = "create"
    THEN MapSet(cache, outcome.id, SandboxCacheItem(outcome.id, DEFAULT_CACHE_TTL))
    ELSE cache

CacheAfterSub(cache, c, outcome) == cache

\* The invocations that invocation t has to wait for before it can resume
\* from its await: none.  getSandbox and the handlers take no lock and join
\* no queue; an invocation awaits only its own backend calls.
WaitsForEarlier(t) ==
    {u \in Calls : u < t /\ calls[u].id = calls[t].id
                         /\ calls[u].pc \in {"awaitHit", "awaitMiss"}}

WaitsFor(t) == {}

\* ----------------------------------------------------------------- actions
\* A request for tool op with sandboxId id arrives: the handler runs into
\* getSandbox and up to the await of daytona.get.
Invoke(t, op, id) ==
    /\ calls[t].pc = "idle"
    /\ \A u \in Calls : u < t => calls[u].pc # "idle"
    /\ LET c == GetSandboxEnter([NoCall EXCEPT !.op = op], id, sandboxCache, clock)
       IN  /\ calls' = [calls EXCEPT ![t] = c]
           /\ backendGets' = backendGets + c.gets
    /\ UNCHANGED <<clock, cacheTtl, sandboxCache, sandboxes, lastPut, startup>>

\* daytona.get settles with reply: getSandbox resumes, writes the cache on the
\* miss path and returns or throws; the handler resumes with that outcome and
\* either finishes or starts its backend operation.
GetReturns(t, reply) ==
    LET c == calls[t]
        put == PutsOnReturn(c, reply)
        item == SandboxCacheItem(c.id, c.now + cacheTtl)
        sandbox == GetSandboxOutcome(c, reply)
        sub == StartsSubCall(c, sandbox)
    IN  /\ c.pc \in {"awaitHit", "awaitMiss"}
        /\ WaitsFor(t) = {}
        /\ reply \in GetReplies(c.op, c.id, sandboxes)
        /\ sandboxCache' = IF put THEN MapSet(sandboxCache, c.id, item) ELSE sandboxCache
        /\ lastPut' = IF put
                      THEN [lastPut EXCEPT ![c.id] =
                              [done |-> TRUE, at |-> clock, started |-> c.now, id |-> item.id,
                               expiresAt |-> item.expiresAt]]
                      ELSE lastPut
        /\ calls' = [calls EXCEPT ![t] =
              [c EXCEPT !.reply = reply,
                        !.sandbox = sandbox,
                        !.now = 0,
                        !.puts = IF put THEN c.puts + 1 ELSE c.puts,
                        !.subs = IF sub THEN c.subs + 1 ELSE c.subs,
                        !.pc = IF sub THEN "awaitSub" ELSE "done",
                        !.response = IF sandbox.ok
                                     THEN IF sub THEN NoResponse ELSE ToolResult(c.op, c.id)
                                     ELSE ToolError(c.op, c.id, sandbox)]]
        /\ UNCHANGED <<clock, cacheTtl, sandboxes, backendGets, startup>>

\* The handler's backend operation settles with outcome.
SubReturns(t, outcome) ==
    LET c == calls[t]
    IN  /\ c.pc = "awaitSub"
        /\ outcome \in SubReplies(c.op, c.id, sandboxes)
        /\ sandboxes' = IF outcome.ok /\ ToolSubCall(c.op) = "remove"
                        THEN sandboxes \ {c.id}
                        ELSE IF outcome.ok /\ ToolSubCall(c.op) = "create"
                        THEN sandboxes \cup {outcome.id}
                        ELSE sandboxes
        /\ sandboxCache' = CacheAfterSub(sandboxCache, c, outcome)
        /\ calls' = [calls EXCEPT ![t] =
              [c EXCEPT !.pc = "done",
                        !.outcome = outcome,
                        !.response = IF outcome.ok THEN ToolResult(c.op, outcome.id)
                                     ELSE ToolError(c.op, c.id, outcome)]]
        /\ UNCHANGED <<clock, cacheTtl, backendGets, lastPut, startup>>

\* Time passes.
Tick ==
    /\ clock < MaxTime
    /\ clock' = clock + 1
    /\ UNCHANGED <<cacheTtl, sandboxCache, sandboxes, calls, backendGets, lastPut, startup>>

AllReplies ==
    {Handle(i) : i \in Ids \cup {""}}
      \cup {BackendFailure(i, e) : i \in Ids \cup {""}, e \in {"NotFound", "Network"} \cup CodedErrors}

Next ==
    \/ \E t \in Calls, op \in ToolNames, id \in Ids : Invoke(t, op, id)
    \/ \E t \in Calls, reply \in AllReplies : GetReturns(t, reply)
    \/ \E t \in Calls, outcome \in AllReplies : SubReturns(t, outcome)
    \/ Tick

Spec == Init /\ [][Next]_vars

\* ------------------------------------------- getSandbox under any cacheTtl
\* The values of options.cacheTtl explored for the resolver alone: absent,
\* zero, negative and small positive ones.
WideCacheTtlOptions ==
    CacheTtlOptions \cup {[given |-> TRUE, value |-> v] : v \in {0 - 1, 0, 2}}

\* A constructed server whose backend has sb1 and may have the second id too.
InitResolve ==
    /\ clock = 0
    /\ \E options \in WideCacheTtlOptions :
          /\ cacheTtl = ConstructCacheTtl(options)
          /\ startup = Started(options)
    /\ sandboxCache = {}
    /\ sandboxes \in {InitialSandboxes, Ids}
    /\ calls = [t \in Calls |-> NoCall]
    /\ backendGets = 0
    /\ lastPut = [i \in Ids |-> NoPut]

\* The backend settles the calls of invocation t: daytona.get and the
\* handler's backend operation.
GetSettles(t) == \E reply \in AllReplies : GetReturns(t, reply)
SubSettles(t) == \E outcome \in AllReplies : SubReturns(t, outcome)
BackendAnswers(t) == WF_vars(GetSettles(t)) /\ WF_vars(SubSettles(t))

\* Completion does not depend on the time, so the clock stands still here.
NextLive ==
    \/ \E t \in Calls, op \in ToolNames, id \in Ids : Invoke(t, op, id)
    \/ \E t \in Calls : GetSettles(t)
    \/ \E t \in Calls : SubSettles(t)

\* The backend eventually answers every call except those of the request
\* that arrived first, which it may leave unanswered for ever.
SpecLive ==
    Init /\ [][NextLive]_vars /\ \A t \in Calls \ {1} : BackendAnswers(t)

\* ------------------------------------------------- requests served in turn
\* A request for the tool or resource op arrives while no other is in flight
\* (its record replaces that of the request served before; time passes
\* between requests, the latency of a backend call being what Spec explores).  The dispatch
\* validates the input; the handler runs up to its first await: that of
\* daytona.get inside getSandbox, or that of its backend operation when it
\* does not call getSandbox.
Request(op, input) ==
    LET c0 == [NoCall EXCEPT !.op = op, !.input = input]
        c == IF DispatchRejects(op, input)
             THEN [c0 EXCEPT !.pc = "done", !.response = InvalidInput]
             ELSE IF CallsGetSandbox(op)
             THEN GetSandboxEnter(c0, input.sandboxId.value, sandboxCache, clock)
             ELSE [c0 EXCEPT !.pc = "awaitSub", !.subs = 1]
    IN  /\ calls[1].pc \in {"idle", "done"}
        /\ backendGets < MaxCalls
        /\ input \in Inputs(op)
        /\ calls' = [calls EXCEPT ![1] = c]
        /\ backendGets' = backendGets + c.gets
        /\ UNCHANGED <<clock, cacheTtl, sandboxCache, sandboxes, lastPut, startup>>

AllInputs == UNION {Inputs(op) : op \in HandlerNames}

NextDispatch ==
    \/ \E op \in HandlerNames, input \in AllInputs : Request(op, input)
    \/ \E reply \in AllReplies : GetReturns(1, reply)
    \/ \E outcome \in AllReplies : SubReturns(1, outcome)
    \/ (calls[1].pc \in {"idle", "done"} /\ Tick)

SpecDispatch == Init /\ [][NextDispatch]_vars

\* Concurrent getSandbox calls, made through get-sandbox.
NextResolve ==
    \/ \E t \in Calls, id \in Ids : Invoke(t, "get-sandbox", id)
    \/ \E t \in Calls : GetSettles(t)
    \/ Tick

SpecResolve == InitResolve /\ [][NextResolve]_vars

\* getSandbox calls that do not overlap, made through get-sandbox one
\* request at a time, the backend taking any time to answer.
NextSequential ==
    \/ \E input \in Inputs("get-sandbox") : Request("get-sandbox", input)
    \/ GetSettles(1)
    \/ Tick

SpecSequential == InitResolve /\ [][NextSequential]_vars

\* ----------------------------------------------------- the factory's steps
\* createDaytonaStdioServer from its call to its first await: it builds the
\* configuration and throws when the key is missing; otherwise it constructs
\* the server (whose constructor creates the empty cache, sets cacheTtl and
\* registers resources and tools) and calls server.connect, which suspends.
CreateDaytonaStdioServer ==
    LET daytonaConfig == CreateDaytonaConfig(startup.options, startup.env)
    IN  /\ startup.pc = "start"
        /\ IF ApiKeyMissing(daytonaConfig)
           THEN /\ startup' = [startup EXCEPT !.pc = "failed",
                                              !.daytonaConfig = daytonaConfig,
                                              !.error = ApiKeyRequired]
                /\ UNCHANGED <<cacheTtl, sandboxCache>>
           ELSE /\ startup' = [startup EXCEPT !.pc = "connecting",
                                              !.daytonaConfig = daytonaConfig,
                                              !.constructed = TRUE,
                                              !.registered = TRUE,
                                              !.registry = ConstructRegistry]
                /\ sandboxCache' = {}
                /\ cacheTtl' = ConstructCacheTtl(startup.cacheTtlOption)
        /\ UNCHANGED <<clock, sandboxes, calls, backendGets, lastPut>>

\* await server.connect(transport) settles.
ConnectReturns(ok) ==
    /\ startup.pc = "connecting"
    /\ startup' = IF ok
                  THEN [startup EXCEPT !.pc = "running", !.connected = TRUE]
                  ELSE [startup EXCEPT !.pc = "failed", !.error = "connect failed"]
    /\ UNCHANGED <<clock, cacheTtl, sandboxCache, sandboxes, calls, backendGets, lastPut>>

\* The process before createDaytonaStdioServer is called: no server object
\* exists yet (cacheTtl and sandboxCache stand for fields not yet created).
InitStartup ==
    /\ clock = 0
    /\ cacheTtl = 0
    /\ sandboxCache = {}
    /\ sandboxes = InitialSandboxes
    /\ calls = [t \in Calls |-> NoCall]
    /\ backendGets = 0
    /\ lastPut = [i \in Ids |-> NoPut]
    /\ \E options \in DaytonaConfigOptions, ttl \in CacheTtlOptions, env \in ProcessEnv :
          startup = StartupOf(options, ttl, env)

NextStartup ==
    \/ CreateDaytonaStdioServer
    \/ \E ok \in BOOLEAN : ConnectReturns(ok)

SpecStartup == InitStartup /\ [][NextStartup]_vars

\* ------------------------------------------ startup followed by requests
\* The process before createDaytonaStdioServer is called with or without a
\* key in the options, nothing else being configured.
InitBoot ==
    /\ clock = 0
    /\ cacheTtl = 0
    /\ sandboxCache = {}
    /\ sandboxes = InitialSandboxes
    /\ calls = [t \in Calls |-> NoCall]
    /\ backendGets = 0
    /\ lastPut = [i \in Ids |-> NoPut]
    /\ \E key \in {Undefined, Str("opt-key")}, ttl \in CacheTtlOptions :
          startup = StartupOf([apiKey |-> key, serverUrl |-> Undefined, target |-> Undefined],
                              ttl,
                              [DAYTONA_API_KEY |-> Undefined, DAYTONA_SERVER_URL |-> Undefined,
                               DAYTONA_TARGET |-> Undefined])

\* Requests reach the server through its transport, which server.connect
\* starts: from the call of connect on, while the process runs.
TransportOpen == startup.pc \in {"connecting", "running"}

NextBoot ==
    \/ CreateDaytonaStdioServer
    \/ \E ok \in BOOLEAN : ConnectReturns(ok)
    \/ \E op \in HandlerNames, input \in AllInputs : TransportOpen /\ Request(op, input)
    \/ GetSettles(1)
    \/ SubSettles(1)

SpecBoot == InitBoot /\ [][NextBoot]_vars

\* ------------------------------------------------------------ observations
Entered(t) == calls[t].pc # "idle"

\* getSandbox of invocation t has returned or thrown.
Resolved(t) == calls[t].pc \in {"awaitSub", "done"}

\* This step is the one in which getSandbox of invocation t resumes from its
\* await and returns or throws.
Resumes(t) ==
    /\ calls[t].pc \in {"awaitHit", "awaitMiss"}
    /\ calls'[t].pc \in {"awaitSub", "done"}

EntriesOf(cache, id) == {e \in cache : e.key = id}

NotFoundKind == "ResourceNotFound"
BackendErrorKind == "InternalError"

\* ------------------------------------------------------------------ claims

C2_PutOnEverySuccess ==
    \A t \in Calls : (Resolved(t) /\ calls[t].sandbox.ok) => calls[t].puts = 1

\* C2 amended: a successful getSandbox whose lookup was Absent or Stale writes
\* the entry of id, as {id, now + ttl} with the now of its entry; one whose
\* lookup was Fresh writes nothing and leaves the cache as it is.
C2_PutUnlessFresh ==
    [][\A t \in Calls :
          (Resumes(t) /\ calls'[t].sandbox.ok) =>
             IF calls[t].lookup \in {"Absent", "Stale"}
             THEN /\ calls'[t].puts = 1
                  /\ MapGet(sandboxCache', calls[t].id)
                       = SandboxCacheItem(calls[t].id, calls[t].now + cacheTtl)
             ELSE /\ calls'[t].puts = 0
                  /\ sandboxCache' = sandboxCache]_vars

\* A successful getSandbox that found a Stale entry has overwritten it.
C2_Witness ==
    \E t \in Calls :
        /\ Resolved(t) /\ calls[t].sandbox.ok
        /\ calls[t].lookup = "Stale" /\ calls[t].puts = 1

\* C3: when daytona.get fails, getSandbox throws that same failure, writes
\* nothing, and the cache is after the call what it was before.
C3_FailedGetLeavesCache ==
    [][\A t \in Calls :
          (Resumes(t) /\ ~calls'[t].reply.ok) =>
             /\ calls'[t].sandbox = calls'[t].reply
             /\ calls'[t].puts = 0
             /\ sandboxCache' = sandboxCache
             /\ lastPut' = lastPut]_vars

\* A getSandbox that found a Stale entry failed with a backend failure, and
\* the entry is still there.
C3_Witness ==
    \E t \in Calls :
        /\ calls[t].pc = "done" /\ calls[t].lookup = "Stale"
        /\ calls[t].sandbox = BackendFailure(calls[t].id, "Network")
        /\ MapHas(sandboxCache, calls[t].id)

\* C4: the cache holds at most one entry per id, the entry under key id has
\* entry.id = id, and it is the entry the latest put for id wrote (no entry
\* when there was no put).
C4_SingleEntryLatestPut ==
    \A id \in Ids :
        /\ Cardinality(EntriesOf(sandboxCache, id)) <= 1
        /\ \A e \in EntriesOf(sandboxCache, id) : e.id = id
        /\ IF lastPut[id].done
           THEN MapGet(sandboxCache, id) = SandboxCacheItem(lastPut[id].id, lastPut[id].expiresAt)
           ELSE ~MapHas(sandboxCache, id)

\* Two invocations have each written the entry of the same id.
C4_Witness ==
    \E t, u \in Calls :
        /\ t # u /\ calls[t].id = calls[u].id
        /\ calls[t].puts = 1 /\ calls[u].puts = 1
        /\ Cardinality(EntriesOf(sandboxCache, calls[t].id)) = 1

\* C5 as stated: after the latest put for id, made at time t, the lookup of id
\* is Fresh exactly at the times in [t, t + ttl); an id without entry is
\* Absent.
C5_FreshForTtlAfterPut ==
    \A id \in Ids :
        IF lastPut[id].done
        THEN (Lookup(MapGet(sandboxCache, id), clock) = "Fresh")
                <=> (clock < lastPut[id].at + cacheTtl)
        ELSE Lookup(MapGet(sandboxCache, id), clock) = "Absent"

\* C6 as stated: the entry a resolve writes has expiresAt = now + ttl with now
\* the time of the write.
C6_ExpiryCountsFromPut ==
    \A id \in Ids :
        lastPut[id].done =>
            MapGet(sandboxCache, id).expiresAt = lastPut[id].at + cacheTtl

\* C7: of two getSandbox calls for the same id that both found no entry, when
\* the backend answers both, the one that resumes later also succeeds, both
\* have written the entry, and the cache then holds exactly one entry for id:
\* the one this later put wrote.
C7_ConcurrentMissesLastPutWins ==
    [][\A t, u \in Calls :
          ( /\ t # u /\ Resumes(t) /\ calls'[t].reply.ok
            /\ calls[t].lookup = "Absent"
            /\ Resolved(u) /\ calls[u].sandbox.ok
            /\ calls[u].id = calls[t].id /\ calls[u].lookup = "Absent" )
          =>
          ( /\ calls'[t].sandbox = Handle(calls[t].id)
            /\ calls[u].puts = 1 /\ calls'[t].puts = 1
            /\ Cardinality(EntriesOf(sandboxCache', calls[t].id)) = 1
            /\ lastPut'[calls[t].id].at = clock
            /\ MapGet(sandboxCache', calls[t].id).expiresAt
                 = lastPut'[calls[t].id].expiresAt )]_vars

\* Two getSandbox calls for sb1 both found no entry and both succeeded.
C7_Witness ==
    \E t, u \in Calls :
        /\ t # u /\ calls[t].id = "sb1" /\ calls[u].id = "sb1"
        /\ calls[t].lookup = "Absent" /\ calls[u].lookup = "Absent"
        /\ Resolved(t) /\ Resolved(u)
        /\ calls[t].sandbox.ok /\ calls[u].sandbox.ok
        /\ calls[t].puts = 1 /\ calls[u].puts = 1

\* C8 as stated: a getSandbox that finds a non-expired entry returns without
\* fetching the sandbox from the backend.
C8_FreshServedFromCache ==
    \A t \in Calls : calls[t].lookup = "Fresh" => calls[t].gets = 0

\* C9: get-sandbox for an id whose daytona.get throws NotFound ends in the
\* structured error {code: ResourceNotFound, message}, not a success and not
\* the backend's exception.
C9_GetSandboxNotFound ==
    \A t \in Calls :
        ( /\ calls[t].op = "get-sandbox" /\ calls[t].pc = "done"
          /\ calls[t].reply = BackendFailure(calls[t].id, "NotFound") )
        =>
        ( /\ calls[t].response.isError
          /\ calls[t].response.code = NotFoundKind
          /\ calls[t].response.message = <<"Sandbox not found: ", calls[t].id>>
          /\ calls[t].response.text = <<>> )

\* get-sandbox was invoked for a sandbox the backend does not have.
C9_Witness ==
    \E t \in Calls :
        /\ calls[t].op = "get-sandbox" /\ calls[t].pc = "done"
        /\ calls[t].reply = BackendFailure("missing", "NotFound")
        /\ calls[t].response.isError

\* C10 as stated: the error of a sandbox-scoped tool has the NotFound kind
\* when the sandbox does not exist and the BackendError kind for any other
\* backend failure.
C10_KindDistinguishesCause ==
    \A t \in Calls :
        (calls[t].pc = "done" /\ ~calls[t].reply.ok) =>
            /\ calls[t].response.isError
            /\ (calls[t].reply.error = "NotFound" => calls[t].response.code = NotFoundKind)
            /\ (calls[t].reply.error # "NotFound" => calls[t].response.code = BackendErrorKind)

\* C16: an invocation of a sandbox-scoped handler makes at most one
\* daytona.get and at most one backend operation; the backend operation is
\* started only after getSandbox returned a handle, so a getSandbox that threw
\* ends the invocation without one; and an invocation that ended in an error
\* made each call once at most, never a second time.
C16_OneGetOneSubNoRetry ==
    \A t \in Calls :
        /\ calls[t].gets <= 1 /\ calls[t].subs <= 1
        /\ (calls[t].subs = 1 => (Resolved(t) /\ calls[t].sandbox.ok))
        /\ ((Resolved(t) /\ ~calls[t].sandbox.ok)
              => (calls[t].subs = 0 /\ calls[t].pc = "done"))
        /\ ((calls[t].pc = "done" /\ calls[t].response.isError)
              => (calls[t].gets + calls[t].subs <= 2
                  /\ calls[t].subs = IF calls[t].sandbox.ok THEN 1 ELSE 0))

\* One start-sandbox ended because getSandbox threw, another invocation ended
\* because its backend operation failed.
C16_Witness ==
    \E t, u \in Calls :
        /\ calls[t].op = "start-sandbox" /\ calls[t].pc = "done"
        /\ ~calls[t].sandbox.ok /\ calls[t].subs = 0
        /\ calls[u].pc = "done" /\ calls[u].sandbox.ok /\ calls[u].subs = 1
        /\ calls[u].response.isError

\* C18 as stated: the entry a resolve writes is Fresh at the moment it is
\* written, i.e. the time of the write is below the written expiresAt,
\* whenever ttl > 0.
C18_WrittenEntryIsFresh ==
    \A id \in Ids :
        (cacheTtl > 0 /\ lastPut[id].done) => lastPut[id].at < lastPut[id].expiresAt

\* C19: the cache is empty when the server is constructed, and no step removes
\* the entry of an id: an id that has an entry has one after every step.
C19_EntriesNeverRemoved ==
    /\ sandboxCache = {}
    /\ [][\A id \in Ids : MapHas(sandboxCache, id) => MapHas(sandboxCache', id)]_vars

\* remove-sandbox of sb1 succeeded, the backend no longer has sb1, a later
\* getSandbox of sb1 failed, and the entry of sb1, now expired, is still there.
C19_Witness ==
    \E t, u \in Calls :
        /\ calls[t].op = "remove-sandbox" /\ calls[t].id = "sb1"
        /\ calls[t].pc = "done" /\ ~calls[t].response.isError
        /\ "sb1" \notin sandboxes
        /\ calls[u].id = "sb1" /\ calls[u].pc = "done"
        /\ calls[u].reply = BackendFailure("sb1", "NotFound")
        /\ MapHas(sandboxCache, "sb1")
        /\ Lookup(MapGet(sandboxCache, "sb1"), clock) = "Stale"

\* C13: when neither options.daytonaConfig.apiKey nor DAYTONA_API_KEY is a
\* non-empty string, createDaytonaStdioServer throws the error 'Daytona API
\* key is required...', and no server is constructed, nothing is registered
\* and no transport is connected, at any point of the run.
C13_NoKeyNoServer ==
    LET given(v) == v.defined /\ v.value # ""
    IN  (~given(startup.options.apiKey) /\ ~given(startup.env.DAYTONA_API_KEY))
        =>
        ( /\ ~startup.constructed /\ ~startup.registered /\ ~startup.connected
          /\ startup.pc \in {"start", "failed"}
          /\ (startup.pc = "failed" =>
                startup.error = "Daytona API key is required. Set it in options or DAYTONA_API_KEY environment variable.") )

\* The factory ran with the option apiKey '' and DAYTONA_API_KEY not set, and
\* threw.
C13_Witness ==
    /\ startup.pc = "failed"
    /\ startup.options.apiKey = Str("") /\ startup.env.DAYTONA_API_KEY = Undefined
    /\ startup.error = ApiKeyRequired /\ ~startup.constructed

\* C14: once createDaytonaStdioServer has built its configuration, each of
\* apiKey, serverUrl and target is the option when that is a non-empty string,
\* otherwise the environment variable when that is a non-empty string,
\* otherwise the default: 'https://app.daytona.io/api', 'us', and no key.
C14_ConfigPrecedence ==
    LET given(v) == v.defined /\ v.value # ""
        used(o, e, d) == IF given(o) THEN o.value ELSE IF given(e) THEN e.value ELSE d
    IN  startup.pc # "start" =>
          /\ startup.daytonaConfig.apiKey
               = Str(used(startup.options.apiKey, startup.env.DAYTONA_API_KEY, ""))
          /\ startup.daytonaConfig.serverUrl
               = Str(used(startup.options.serverUrl, startup.env.DAYTONA_SERVER_URL,
                          "https://app.daytona.io/api"))
          /\ startup.daytonaConfig.target
               = Str(used(startup.options.target, startup.env.DAYTONA_TARGET, "us"))

\* The server runs on a configuration that took the key from the option, the
\* URL from the environment because the option was '', and the default target
\* because both option and variable were empty or not set.
C14_Witness ==
    /\ startup.pc = "running"
    /\ startup.options.apiKey = Str("opt-key") /\ startup.env.DAYTONA_API_KEY = Str("env-key")
    /\ startup.options.serverUrl = Str("") /\ startup.env.DAYTONA_SERVER_URL = Str("env-url")
    /\ startup.options.target = Undefined /\ startup.env.DAYTONA_TARGET = Str("")
    /\ startup.daytonaConfig = [apiKey |-> Str("opt-key"), serverUrl |-> Str("env-url"),
                                target |-> Str("us")]

\* C11 as stated: for every tool and resource handler, an invocation in which
\* getSandbox or the backend operation failed ends in a failure that carries
\* both a code and a message, never in a success.
C11_FailureCarriesCodeAndMessage ==
    \A t \in Calls :
        (calls[t].pc = "done" /\ (calls[t].sandbox.error # "" \/ calls[t].outcome.error # ""))
        =>
        ( /\ calls[t].response.isError
          /\ calls[t].response.code # ""
          /\ calls[t].response.message # <<>> )

\* C12 as stated: create-sandbox invoked with {badField: 1} fails with
\* InvalidInput and makes no backend call.
C12_BadFieldIsInvalidInput ==
    \A t \in Calls :
        ( /\ calls[t].op = "create-sandbox"
          /\ calls[t].input = [NoInput EXCEPT !.badField = Str("1")] )
        =>
        ( /\ calls[t].pc = "done"
          /\ calls[t].response.isError /\ calls[t].response.code = "InvalidInput"
          /\ calls[t].gets = 0 /\ calls[t].subs = 0 )

\* C15 as stated: the success response of a tool has a content list whose
\* first item has a mimeType: application/json for the tools that return data,
\* text/plain for those that return a confirmation message.
C15_SuccessCarriesMimeType ==
    \A t \in Calls :
        ( /\ calls[t].pc = "done" /\ ~calls[t].response.isError
          /\ calls[t].op \in SandboxToolNames \cup OtherToolNames )
        =>
        calls[t].response.mimeType =
            IF calls[t].op \in {"list-sandboxes", "create-sandbox", "get-sandbox",
                                "execute-command", "list-files"}
            THEN "application/json" ELSE "text/plain"

\* C17: daytona.get is called only inside getSandbox; a handler of a
\* sandbox-scoped tool or resource that runs calls getSandbox once, and with
\* it daytona.get once; create-sandbox and list-sandboxes never call
\* getSandbox and make no daytona.get.
C17_GetSandboxChokepoint ==
    \A t \in Calls :
        /\ calls[t].gets > 0 => calls[t].lookup # ""
        /\ calls[t].op \in {"create-sandbox", "list-sandboxes"}
             => (calls[t].lookup = "" /\ calls[t].gets = 0)
        /\ ( /\ calls[t].op \in {"get-sandbox", "start-sandbox", "stop-sandbox",
                                  "remove-sandbox", "execute-command", "list-files",
                                  "create-directory", "clone-repository",
                                  SANDBOX, FILES, PROCESSES, GIT}
             /\ calls[t].input.sandboxId.defined )
             => (calls[t].lookup # "" /\ calls[t].gets = 1 /\ calls[t].id # "")

\* create-sandbox succeeded without a getSandbox call, after an earlier
\* request had resolved a sandbox through getSandbox.
C17_Witness ==
    /\ calls[1].op = "create-sandbox" /\ calls[1].pc = "done"
    /\ ~calls[1].response.isError /\ calls[1].subs = 1 /\ calls[1].gets = 0
    /\ backendGets = 1

\* C20: the cache changes only in a step in which getSandbox of a
\* sandbox-scoped invocation resumes from daytona.get; the arrival of a
\* request and the settling of any backend operation (create, list, start,
\* stop, remove, process, filesystem, git) leave it as it is.
C20_CacheWrittenOnlyInGetSandbox ==
    [][sandboxCache' # sandboxCache =>
         \E t \in Calls :
            /\ Resumes(t)
            /\ calls[t].op \notin {"create-sandbox", "list-sandboxes", SANDBOXES}]_vars

\* create-sandbox created the sandbox "missing" while the cache held the entry
\* of sb1: the cache has no entry for the new id.
C20_Witness ==
    /\ calls[1].op = "create-sandbox" /\ calls[1].pc = "done"
    /\ calls[1].outcome = Handle("missing") /\ "missing" \in sandboxes
    /\ MapHas(sandboxCache, "sb1") /\ ~MapHas(sandboxCache, "missing")

C23_TtlFixedAtConstruction ==
    /\ [](cacheTtl = IF startup.cacheTtlOption.given
                     THEN startup.cacheTtlOption.value ELSE 30000)
    /\ [][/\ cacheTtl' = cacheTtl
          /\ \A t \in Calls :
                (Resumes(t) /\ calls'[t].puts > calls[t].puts) =>
                    MapGet(sandboxCache', calls[t].id).expiresAt
                      = calls[t].now + cacheTtl]_vars

\* A server constructed with cacheTtl 1 has written the entry of sb1 twice.
C23_Witness ==
    /\ startup.cacheTtlOption = [given |-> TRUE, value |-> 1] /\ cacheTtl = 1
    /\ \E t, u \in Calls :
          t # u /\ calls[t].puts = 1 /\ calls[u].puts = 1 /\ clock > 0

\* C25 as stated: the expiresAt stored for an id never decreases: every put
\* writes an expiresAt at least as large as the one it overwrites.
C25_ExpiryNeverDecreases ==
    [][\A id \in Ids :
          (MapHas(sandboxCache, id) /\ MapHas(sandboxCache', id)) =>
              MapGet(sandboxCache', id).expiresAt >= MapGet(sandboxCache, id).expiresAt]_vars

\* C27: an id that has a cache entry was successfully returned by the
\* daytona.get of some getSandbox call for it; an id for which every
\* daytona.get failed has no entry.
C27_EntryImpliesSuccessfulGet ==
    \A id \in Ids :
        MapHas(sandboxCache, id) =>
            \E t \in Calls :
                /\ calls[t].id = id /\ calls[t].gets = 1
                /\ Resolved(t) /\ calls[t].reply = Handle(id)

\* Two getSandbox calls for "missing" failed, one on NotFound and one on a
\* network error: the cache has no entry for it.
C27_Witness ==
    \E t, u \in Calls :
        /\ calls[t].id = "missing" /\ calls[u].id = "missing"
        /\ calls[t].reply = BackendFailure("missing", "NotFound")
        /\ calls[u].reply = BackendFailure("missing", "Network")
        /\ ~MapHas(sandboxCache, "missing")

\* C22: an invocation whose backend calls are each eventually answered
\* eventually completes, with a result or a failure, whatever happens to the
\* other invocations: also when the backend never answers another request,
\* for the same or another id.
C22_CompletesIfBackendAnswers ==
    \A t \in Calls :
        BackendAnswers(t) => (Entered(t) ~> calls[t].pc = "done")

\* The request that arrived second, for the same id as the first, has
\* completed while the first still waits for the backend.
C22_Witness ==
    /\ calls[1].pc = "awaitMiss" /\ calls[1].id = "sb1"
    /\ calls[2].pc = "done" /\ calls[2].id = "sb1" /\ ~calls[2].response.isError
    /\ calls[2].subs = 1

\* C26: with getSandbox calls that do not overlap, once a miss-path call that
\* started at time s has written the entry of id, a call for id that starts
\* before s + ttl finds the entry Fresh; a call that found it Fresh leaves the
\* cache as it is, so a hit never extends the expiry; and a call that rewrites
\* the entry started at s + ttl or later.
C26_NoSlidingExpiration ==
    [][/\ ( /\ calls[1].pc \in {"idle", "done"}
            /\ calls'[1].pc \in {"awaitHit", "awaitMiss"}
            /\ lastPut[calls'[1].id].done
            /\ clock < lastPut[calls'[1].id].started + cacheTtl )
          => calls'[1].lookup = "Fresh"
       /\ (Resumes(1) /\ calls[1].lookup = "Fresh")
          => (sandboxCache' = sandboxCache /\ lastPut' = lastPut)
       /\ (Resumes(1) /\ calls'[1].puts > calls[1].puts /\ lastPut[calls[1].id].done)
          => calls[1].now >= lastPut[calls[1].id].started + cacheTtl]_vars

\* With ttl 2, the entry of sb1 was written at time 1 by a call that started
\* at time 0; a call that started at time 1 found it Fresh, succeeded and left
\* the expiry at 2.
C26_Witness ==
    /\ cacheTtl = 2
    /\ lastPut["sb1"].done /\ lastPut["sb1"].started = 0 /\ lastPut["sb1"].at = 1
    /\ calls[1].id = "sb1" /\ calls[1].pc = "done" /\ calls[1].lookup = "Fresh"
    /\ calls[1].sandbox.ok /\ clock = 1
    /\ MapGet(sandboxCache, "sb1").expiresAt = 2

\* C28: a getSandbox(id) call, whether it succeeds or fails, leaves the cache
\* entries of every other id exactly as they are: it creates, changes and
\* removes none, at its entry and when it resumes, whatever calls for other
\* ids are in flight.
C28_IdentifierIsolation ==
    [][\A t \in Calls :
          ( \/ Resumes(t)
            \/ (calls[t].pc = "idle" /\ calls'[t].pc # "idle") )
          => \A j \in Ids \ {calls'[t].id} :
                EntriesOf(sandboxCache', j) = EntriesOf(sandboxCache, j)]_vars

\* Both ids have an entry, written by two calls that were in flight together
\* and resumed at different times.
C28_Witness ==
    \E t, u \in Calls :
        /\ calls[t].id = "sb1" /\ calls[u].id = "missing"
        /\ calls[t].puts = 1 /\ calls[u].puts = 1
        /\ lastPut["sb1"].started = lastPut["missing"].started
        /\ lastPut["sb1"].at # lastPut["missing"].at
        /\ MapHas(sandboxCache, "sb1") /\ MapHas(sandboxCache, "missing")

\* C30: a cacheTtl that is given is used as given, zero and negative values
\* included, and only an absent one selects 30000; with a ttl of zero or less
\* no getSandbox call finds a Fresh entry, and every successful call has
\* rewritten the entry.
C30_ZeroTtlHonoured ==
    /\ cacheTtl = IF startup.cacheTtlOption.given
                  THEN startup.cacheTtlOption.value ELSE 30000
    /\ cacheTtl <= 0 =>
          \A t \in Calls :
              /\ Entered(t) => calls[t].lookup \in {"Absent", "Stale"}
              /\ (Resolved(t) /\ calls[t].sandbox.ok) => calls[t].puts = 1

\* With cacheTtl 0, two calls for sb1 succeeded without time passing; the
\* second found the entry of the first already Stale and rewrote it.
C30_Witness ==
    /\ startup.cacheTtlOption = [given |-> TRUE, value |-> 0] /\ cacheTtl = 0
    /\ clock = 0
    /\ \E t, u \in Calls :
          /\ calls[t].id = "sb1" /\ calls[u].id = "sb1"
          /\ calls[t].lookup = "Absent" /\ calls[u].lookup = "Stale"
          /\ calls[t].puts = 1 /\ calls[u].puts = 1

\* C29 as stated: every failure of a read of the sandbox, files, processes or
\* git resource reaches the caller as the structured error with code
\* ResourceNotFound and a message, never as the error the backend threw.
C29_ResourceFailureIsNotFound ==
    \A t \in Calls :
        ( /\ calls[t].op \in {SANDBOX, FILES, PROCESSES, GIT}
          /\ calls[t].pc = "done" /\ calls[t].response.isError )
        =>
        ( /\ calls[t].response.code = "ResourceNotFound"
          /\ calls[t].response.message # <<>>
          /\ calls[t].response # RawError(calls[t].sandbox)
          /\ calls[t].response # RawError(calls[t].outcome) )

\* C24: the registry is filled once, by the constructor, with all resources
\* and then all tools, before connect is called: whenever the transport is
\* open or connected, or a request has been dispatched, the registry is
\* complete; and no later step, of a handler or of the startup, adds,
\* replaces or removes a registered operation.
C24_RegisteredOnceBeforeConnect ==
    /\ []( ( \/ startup.pc \in {"connecting", "running"}
             \/ startup.connected
             \/ \E t \in Calls : Entered(t) )
           => startup.registry =
                <<"sandboxes://", "sandboxes://{id}", "sandbox://{sandboxId}/files/{path*}",
                  "sandbox://{sandboxId}/processes/{sessionId}",
                  "sandbox://{sandboxId}/git/{repoPath*}",
                  "create-sandbox", "get-sandbox", "list-sandboxes", "start-sandbox",
                  "stop-sandbox", "remove-sandbox", "execute-command", "list-files",
                  "create-directory", "clone-repository">> )
    /\ [][startup.registry' # startup.registry =>
            ( /\ startup.pc = "start" /\ startup.registry = <<>>
              /\ ~startup.constructed /\ startup'.constructed
              /\ ~startup'.connected
              /\ \A t \in Calls : ~Entered(t) )]_vars

\* The server was constructed and connected, and has since served a
\* remove-sandbox request to its end.
C24_Witness ==
    /\ startup.pc = "running" /\ startup.connected
    /\ Len(startup.registry) = 15
    /\ calls[1].op = "remove-sandbox" /\ calls[1].pc = "done"
    /\ ~calls[1].response.isError

====
